---- MODULE Spec2Model ----
(***************************************************************************)
(* TableClient of supabase_client/_supabase_clients.py as a state machine. *)
(*                                                                         *)
(* State: the fields of each TableClient (base_url, headers, raise_error,  *)
(* the builder's _as_url), the dict objects the headers fields refer to,   *)
(* and the call chains in progress (one record per caller).  A call chain  *)
(* is suspended exactly while it waits for session.requests(...).          *)
(* Python strings are TLA+ strings; None and "" are both the falsy "".     *)
(***************************************************************************)
EXTENDS Naturals, Sequences, FiniteSets, TLC

\* ------------------------------------------------------------- bounds ----

\* Largest number of column->value terms in a filter mapping.
MaxTerms == 2

\* ------------------------------------------------------------- inputs ----

Clients == {"c1", "c2"}
Tasks == {"t1", "t2"}

api_url == "http://h"
table_name(c) == IF c = "c1" THEN "posts" ELSE "users"

\* A Python value used as a filter value: an int or a str.
IntVal(n) == [t |-> "int", n |-> n, s |-> ""]
StrVal(s) == [t |-> "str", n |-> 0, s |-> s]

Keys == {"id", "title", "n"}
Vals == {IntVal(3), IntVal(12), StrVal("hi")}
Rows == {"id", "title"}
RawQueries == {"id=eq.1"}
Bodies == {"B1", "B2"}
Statuses == {199, 200, 299, 300, 404}
Messages == {"refused"}

\* The exception classes the transport raises when it cannot connect:
\* aiohttp.ClientConnectorError and a subclass of it.
ConnectorErrors == {"aiohttp.ClientConnectorError", "aiohttp.ClientProxyConnectionError"}

NoData == [type |-> "none", json |-> ""]
\* insert's argument: a list, a tuple or a single mapping.
InsertData == {[type |-> "list", json |-> "J1"], [type |-> "tuple", json |-> "J1"],
               [type |-> "dict", json |-> "J1"]}
UpdateData == {[type |-> "dict", json |-> "J2"]}

RECURSIVE DistinctKeys(_)
DistinctKeys(items) ==
  IF Len(items) <= 1 THEN TRUE
  ELSE /\ \A i \in 2..Len(items) : items[i][1] # items[1][1]
       /\ DistinctKeys(Tail(items))

\* The items() of a mapping: pairs <<k, v>> in mapping order, keys distinct.
RECURSIVE ItemsOfLen(_)
ItemsOfLen(n) ==
  IF n = 0 THEN {<<>>}
  ELSE {Append(s, <<k, v>>) : s \in ItemsOfLen(n - 1), k \in Keys, v \in Vals}

Targets == {s \in UNION {ItemsOfLen(n) : n \in 0..MaxTerms} : DistinctKeys(s)}
UpdateTargets == {s \in Targets : Len(s) <= 1}

\* The dict objects: the one default-argument object of __init__, and one
\* dict per client that its constructor call may pass instead.
DefaultRef == "default"
OwnRef(c) == IF c = "c1" THEN "h1" ELSE "h2"
Refs == {DefaultRef} \cup {OwnRef(c) : c \in Clients}
\* A dict of headers is the set of its <<name, value>> entries.
OwnHeaders(c) ==
  IF c = "c1" THEN {<<"apiKey", "K">>}
  ELSE {<<"apiKey", "K">>, <<"Prefer", "count=exact">>}

\* ------------------------------------------------------ pure functions ----

Range(a, b) == {n \in a..b : n < b}

success_status_codes == Range(200, 300)

DigitChar(d) == SubSeq("0123456789", d + 1, d + 1)

RECURSIVE Digits(_)
Digits(n) == IF n < 10 THEN DigitChar(n) ELSE Digits(n \div 10) \o DigitChar(n % 10)

\* f"{v}": str() of a value.
Format(v) == IF v.t = "int" THEN Digits(v.n) ELSE v.s

\* urllib.parse.quote_plus on one character of the model's alphabet.
QuoteChar(ch) ==
  IF ch = " " THEN "+"
  ELSE IF ch = "&" THEN "%26"
  ELSE IF ch = "=" THEN "%3D"
  ELSE IF ch = "?" THEN "%3F"
  ELSE ch

RECURSIVE QuotePlus(_)
QuotePlus(s) ==
  IF Len(s) = 0 THEN "" ELSE QuoteChar(SubSeq(s, 1, 1)) \o QuotePlus(SubSeq(s, 2, Len(s)))

\* urllib.parse.urlencode(target)
RECURSIVE urlencode(_)
urlencode(items) ==
  IF Len(items) = 0 THEN ""
  ELSE LET term == QuotePlus(items[1][1]) \o "=" \o QuotePlus(Format(items[1][2]))
       IN IF Len(items) = 1 THEN term ELSE term \o "&" \o urlencode(Tail(items))

\* s[:-1]
DropLast(s) == IF Len(s) = 0 THEN s ELSE SubSeq(s, 1, Len(s) - 1)

\* for k, v in data: endpoint += f"{k}={v}&"
RECURSIVE AppendTerms(_, _)
AppendTerms(endpoint, items) ==
  IF Len(items) = 0 THEN endpoint
  ELSE AppendTerms(endpoint \o items[1][1] \o "=" \o Format(items[1][2]) \o "&", Tail(items))

DeleteEndpointNoStrip(base, target) == AppendTerms(base \o "?", target)

\* delete's endpoint
DeleteEndpoint(base, target) == DropLast(AppendTerms(base \o "?", target))

UpdateEndpoint(base, target) == base \o "?" \o urlencode(target)

CustomUrl(base, data) == base \o "?" \o data

\* TableQueryBuilder.select: the URL it accumulates.
SelectUrl(base, row) == base \o "?select=" \o row

\* headers.update({"Prefer": "return=representation"}) on a dict h
Extend(h) == {e \in h : e[1] # "Prefer"} \cup {<<"Prefer", "return=representation">>}

PreferHeadersInPlace(hp, ref) ==
  [heap |-> [hp EXCEPT ![ref] = Extend(@)], sent |-> Extend(hp[ref])]

\* headers = self.headers.copy(); headers.update({...}): the dict objects
\* afterwards and the headers the request is sent with.
PreferHeaders(hp, ref) == [heap |-> hp, sent |-> Extend(hp[ref])]

\* --------------------------------------------------------------- values ----

NoErr == [none |-> TRUE, error |-> "", data |-> "", status |-> 0]
\* Error(error=SupabaseError(data), data=data, status=status)
Error(error, data, status) == [none |-> FALSE, error |-> error, data |-> data, status |-> status]

NoValue == [tag |-> "absent", err |-> NoErr, data |-> ""]
NoneValue == [tag |-> "None", err |-> NoErr, data |-> ""]
Pair(err, data) == [tag |-> "pair", err |-> err, data |-> data]
\* The coroutine object of an unstarted query() call.
Coroutine == [tag |-> "coroutine", err |-> NoErr, data |-> ""]

Pending == [kind |-> "none", value |-> NoValue, exc |-> "", payload |-> ""]
Return(v) == [kind |-> "return", value |-> v, exc |-> "", payload |-> ""]
Raise(exc, payload) == [kind |-> "raise", value |-> NoValue, exc |-> exc, payload |-> payload]

NoResp == [kind |-> "none", status |-> 0, body |-> "", cls |-> "", msg |-> ""]
Response(status, body) == [kind |-> "response", status |-> status, body |-> body, cls |-> "", msg |-> ""]
Failure(cls, msg) == [kind |-> "failure", status |-> 0, body |-> "", cls |-> cls, msg |-> msg]

NoArg == [row |-> "", target |-> <<>>, data |-> NoData, raw |-> ""]

Request(verb, url, hdrs, json) == [verb |-> verb, url |-> url, headers |-> hdrs, json |-> json]

IdleCall == [pc |-> "idle", op |-> "none", client |-> "none", arg |-> NoArg,
             own |-> "", reqs |-> <<>>, resp |-> NoResp, out |-> Pending]

\* ------------------------------------------------------- classification ----

is_ok_upto300(status) == status \in Range(200, 301)

is_ok(status) == status \in success_status_codes

error_always_returns(raise, status, data) ==
  IF ~is_ok(status) THEN Return(Pair(Error(data, data, status), data))
  ELSE Return(Pair(NoErr, data))

\* return self._error(response, json_data), json_data
\* (the SupabaseError built from data is represented by data, its payload)
error_result(raise, status, data) ==
  IF ~is_ok(status)
  THEN IF raise THEN Raise("SupabaseError", data)
       ELSE Return(Pair(Error(data, data, status), data))
  ELSE Return(Pair(NoErr, data))

except_propagates(cls, msg) == Raise(cls, msg)

\* except aiohttp.ClientConnectorError as err: raise ClientConnectorError(str(err))
except_clause(cls, msg) ==
  IF cls \in ConnectorErrors THEN Raise("ClientConnectorError", msg) ELSE Raise(cls, msg)

\* ---------------------------------------------------------------- state ----

VARIABLES
  base_url,     \* client -> self.base_url
  headers,      \* client -> the dict object self.headers refers to
  raise_error,  \* client -> self.raise_error
  as_url,       \* client -> self._as_url ("" when none is accumulated)
  heap,         \* dict object -> its entries
  given,        \* client -> the entries of its headers at construction
  calls         \* caller -> its call chain

vars == <<base_url, headers, raise_error, as_url, heap, given, calls>>
config == <<base_url, headers, raise_error, given>>

\* TableClient.__init__ for every client: headers is the shared default
\* object or the client's own dict.
Init ==
  /\ base_url = [c \in Clients |-> api_url \o "/" \o table_name(c)]
  /\ headers \in [Clients -> Refs]
  /\ \A c \in Clients : headers[c] \in {DefaultRef, OwnRef(c)}
  /\ raise_error \in [Clients -> BOOLEAN]
  /\ as_url = [c \in Clients |-> ""]
  /\ heap = [r \in Refs |-> IF r = DefaultRef THEN {}
                            ELSE IF r = "h1" THEN OwnHeaders("c1") ELSE OwnHeaders("c2")]
  /\ given = [c \in Clients |-> heap[headers[c]]]
  /\ calls = [t \in Tasks |-> IdleCall]

\* ------------------------------------------------------------- actions ----

Begin(t, op, c, arg) ==
  [IdleCall EXCEPT !.op = op, !.client = c, !.arg = arg]

\* The request is issued and the call suspends until the transport answers.
Suspend(call, req) == [call EXCEPT !.pc = "waiting", !.reqs = Append(@, req)]

Finish(call, out) == [call EXCEPT !.pc = "done", !.out = out]

\* get(row): select(row) runs, query() only builds a coroutine object,
\* which get returns as it is.
Get(t, c, row) ==
  /\ calls[t].pc = "idle"
  /\ as_url' = [as_url EXCEPT ![c] = SelectUrl(base_url[c], row)]
  /\ calls' = [calls EXCEPT ![t] =
       Finish([Begin(t, "get", c, [NoArg EXCEPT !.row = row])
                 EXCEPT !.own = SelectUrl(base_url[c], row)], Return(Coroutine))]
  /\ UNCHANGED <<config, heap>>

\* select(row) of a chain select(row).query(): the builder records the URL
\* on the client and query() builds its coroutine, not yet started.
Select(t, c, row) ==
  /\ calls[t].pc = "idle"
  /\ as_url' = [as_url EXCEPT ![c] = SelectUrl(base_url[c], row)]
  /\ calls' = [calls EXCEPT ![t] =
       [Begin(t, "select", c, [NoArg EXCEPT !.row = row])
          EXCEPT !.pc = "built", !.own = SelectUrl(base_url[c], row)]]
  /\ UNCHANGED <<config, heap>>

QueryBodyNoGuard(call) ==
  Suspend([call EXCEPT !.op = "query"],
          Request("GET", as_url[call.client], heap[headers[call.client]], NoData))

\* The body of query() up to its suspension.
QueryBody(call) ==
  IF as_url[call.client] # ""
  THEN Suspend([call EXCEPT !.op = "query"],
               Request("GET", as_url[call.client], heap[headers[call.client]], NoData))
  ELSE Finish([call EXCEPT !.op = "query"], Return(NoneValue))

\* The coroutine of a chain's query() starts to run.
Query(t) ==
  /\ calls[t].pc = "built"
  /\ calls' = [calls EXCEPT ![t] = QueryBody(@)]
  /\ UNCHANGED <<config, heap, as_url>>

\* query() called on its own.
BareQuery(t, c) ==
  /\ calls[t].pc = "idle"
  /\ calls' = [calls EXCEPT ![t] = QueryBody(Begin(t, "query", c, NoArg))]
  /\ UNCHANGED <<config, heap, as_url>>

\* The caller awaits the coroutine that get returned.
AwaitReturned(t) ==
  /\ calls[t].pc = "done"
  /\ calls[t].op = "get"
  /\ calls[t].out = Return(Coroutine)
  /\ calls' = [calls EXCEPT ![t] = QueryBody([@ EXCEPT !.out = Pending])]
  /\ UNCHANGED <<config, heap, as_url>>

InsertBodyNoCheck(call, hp, ref, base) ==
  LET h == PreferHeaders(hp, ref)
  IN [heap |-> h.heap, call |-> Suspend(call, Request("POST", base, h.sent, call.arg.data))]

\* The body of insert up to its suspension, or to the validation error.
InsertBody(call, hp, ref, base) ==
  IF call.arg.data.type # "list"
  THEN [heap |-> hp,
        call |-> Finish(call, Raise("UnexpectedValueTypeError", "Expected a list for: value"))]
  ELSE LET h == PreferHeaders(hp, ref)
       IN [heap |-> h.heap, call |-> Suspend(call, Request("POST", base, h.sent, call.arg.data))]

Insert(t, c, data) ==
  /\ calls[t].pc = "idle"
  /\ LET r == InsertBody(Begin(t, "insert", c, [NoArg EXCEPT !.data = data]),
                         heap, headers[c], base_url[c])
     IN /\ heap' = r.heap
        /\ calls' = [calls EXCEPT ![t] = r.call]
  /\ UNCHANGED <<config, as_url>>

Update(t, c, target, data) ==
  /\ calls[t].pc = "idle"
  /\ LET h == PreferHeaders(heap, headers[c])
     IN /\ heap' = h.heap
        /\ calls' = [calls EXCEPT ![t] =
             Suspend(Begin(t, "update", c, [NoArg EXCEPT !.target = target, !.data = data]),
                     Request("PATCH", UpdateEndpoint(base_url[c], target), h.sent, data))]
  /\ UNCHANGED <<config, as_url>>

Delete(t, c, target) ==
  /\ calls[t].pc = "idle"
  /\ calls' = [calls EXCEPT ![t] =
       Suspend(Begin(t, "delete", c, [NoArg EXCEPT !.target = target]),
               Request("DELETE", DeleteEndpoint(base_url[c], target), heap[headers[c]], NoData))]
  /\ UNCHANGED <<config, heap, as_url>>

CustomQuery(t, c, raw) ==
  /\ calls[t].pc = "idle"
  /\ calls' = [calls EXCEPT ![t] =
       Suspend(Begin(t, "customquery", c, [NoArg EXCEPT !.raw = raw]),
               Request("GET", CustomUrl(base_url[c], raw), heap[headers[c]], NoData))]
  /\ UNCHANGED <<config, heap, as_url>>

\* session.requests returns (response, json_data); the handler classifies
\* the response and returns or raises.
Respond(t, status, body) ==
  /\ calls[t].pc = "waiting"
  /\ calls' = [calls EXCEPT ![t] =
       Finish([@ EXCEPT !.resp = Response(status, body)],
              error_result(raise_error[@.client], status, body))]
  /\ UNCHANGED <<config, heap, as_url>>

\* The transport cannot connect: the handler's except clause runs.
ConnectFail(t, cls, msg) ==
  /\ calls[t].pc = "waiting"
  /\ calls' = [calls EXCEPT ![t] =
       Finish([@ EXCEPT !.resp = Failure(cls, msg)], except_clause(cls, msg))]
  /\ UNCHANGED <<config, heap, as_url>>

\* The caller has its result (or exception) and is free to call again.
Forget(t) ==
  /\ calls[t].pc = "done"
  /\ calls' = [calls EXCEPT ![t] = IdleCall]
  /\ UNCHANGED <<config, heap, as_url>>

\* ------------------------------------------------------ specifications ----

\* One caller, one call at a time, every operation.
Next ==
  \/ \E c \in Clients, row \in Rows : Get("t1", c, row)
  \/ \E c \in Clients, row \in Rows : Select("t1", c, row)
  \/ Query("t1")
  \/ \E c \in Clients : BareQuery("t1", c)
  \/ AwaitReturned("t1")
  \/ \E c \in Clients, data \in InsertData : Insert("t1", c, data)
  \/ \E c \in Clients, target \in UpdateTargets, data \in UpdateData : Update("t1", c, target, data)
  \/ \E c \in Clients, target \in Targets : Delete("t1", c, target)
  \/ \E c \in Clients, raw \in RawQueries : CustomQuery("t1", c, raw)
  \/ \E status \in Statuses, body \in Bodies : Respond("t1", status, body)
  \/ \E cls \in ConnectorErrors, msg \in Messages : ConnectFail("t1", cls, msg)
  \/ Forget("t1")

Spec == Init /\ [][Next]_vars

\* Two callers whose builder chains on the clients interleave.
InitConc ==
  /\ Init
  /\ \A c \in Clients : headers[c] = DefaultRef

NextConc ==
  \E t \in Tasks :
    \/ \E c \in Clients, row \in Rows : Get(t, c, row)
    \/ \E c \in Clients, row \in Rows : Select(t, c, row)
    \/ Query(t)
    \/ \E c \in Clients : BareQuery(t, c)
    \/ AwaitReturned(t)
    \/ \E status \in Statuses, body \in Bodies : Respond(t, status, body)
    \/ \E cls \in ConnectorErrors, msg \in Messages : ConnectFail(t, cls, msg)
    \/ Forget(t)

SpecConc == InitConc /\ [][NextConc]_vars

\* --------------------------------------------------------------- claims ----

Done(t) == calls[t].pc = "done"
Answered(t) == Done(t) /\ calls[t].resp.kind = "response"
RequestOps == {"insert", "update", "delete", "customquery", "query"}
\* The argument types of insert that are sequences.
SequenceTypes == {"list", "tuple"}

\* C1: on a client with raise_error = False, every operation that issued a
\* request and got status s returns a pair whose first component is None
\* exactly when 200 <= s < 300 and whose second component is the body.
C1_NoneIffSuccess ==
  \A t \in Tasks :
    (Answered(t) /\ calls[t].op \in RequestOps /\ ~raise_error[calls[t].client]) =>
      /\ calls[t].out.kind = "return"
      /\ calls[t].out.value.tag = "pair"
      /\ calls[t].out.value.err.none <=>
           (200 <= calls[t].resp.status /\ calls[t].resp.status < 300)
      /\ calls[t].out.value.data = calls[t].resp.body

C1_Witness ==
  \E t \in Tasks :
    /\ Answered(t) /\ calls[t].op = "insert" /\ ~raise_error[calls[t].client]
    /\ calls[t].resp.status = 300
    /\ ~calls[t].out.value.err.none
    /\ calls[t].out.value.data = "B2"

\* C2: after a non-2xx response, a client built with raise_error = True
\* raises SupabaseError carrying the body and returns nothing; a client
\* built with raise_error = False raises nothing and returns
\* (Error(error, data, status), data) with data the body and status the
\* response's status.
C2_RaiseOrReturn ==
  \A t \in Tasks :
    (Answered(t) /\ calls[t].op \in RequestOps
       /\ ~(200 <= calls[t].resp.status /\ calls[t].resp.status < 300)) =>
      IF raise_error[calls[t].client]
      THEN /\ calls[t].out.kind = "raise"
           /\ calls[t].out.exc = "SupabaseError"
           /\ calls[t].out.payload = calls[t].resp.body
           /\ calls[t].out.value = NoValue
      ELSE /\ calls[t].out.kind = "return"
           /\ calls[t].out.exc = ""
           /\ calls[t].out.value.tag = "pair"
           /\ ~calls[t].out.value.err.none
           /\ calls[t].out.value.err.error = calls[t].resp.body
           /\ calls[t].out.value.err.data = calls[t].resp.body
           /\ calls[t].out.value.err.status = calls[t].resp.status
           /\ calls[t].out.value.data = calls[t].resp.body

C2_Witness ==
  \E t \in Tasks :
    /\ Answered(t) /\ calls[t].op = "delete" /\ raise_error[calls[t].client]
    /\ calls[t].resp.status = 404 /\ calls[t].resp.body = "B2"
    /\ calls[t].out = Raise("SupabaseError", "B2")

\* C3: insert with an argument that is not a sequence raises
\* UnexpectedValueTypeError whatever raise_error is, and no request is
\* ever issued for that call.
C3_InsertValidates ==
  \A t \in Tasks :
    (calls[t].op = "insert" /\ calls[t].arg.data.type \notin SequenceTypes) =>
      /\ Done(t)
      /\ calls[t].out.kind = "raise"
      /\ calls[t].out.exc = "UnexpectedValueTypeError"
      /\ calls[t].reqs = <<>>
      /\ calls[t].resp = NoResp

C3_Witness ==
  \E t \in Tasks :
    /\ calls[t].op = "insert" /\ calls[t].arg.data.type = "dict"
    /\ ~raise_error[calls[t].client]
    /\ calls[t].out.exc = "UnexpectedValueTypeError"

\* C4: awaiting get(row) has issued the GET request built by select(row),
\* has its response, and on status 200 with body B yields (None, B).
C4_GetYieldsResult ==
  \A t \in Tasks :
    (Done(t) /\ calls[t].op = "get") =>
      /\ Len(calls[t].reqs) = 1
      /\ calls[t].reqs[1].verb = "GET"
      /\ calls[t].reqs[1].url = SelectUrl(base_url[calls[t].client], calls[t].arg.row)
      /\ calls[t].resp.kind = "response"
      /\ calls[t].resp.status = 200 =>
           calls[t].out = Return(Pair(NoErr, calls[t].resp.body))

\* C5: the terminal query of a chain sends its request to the URL that its
\* own chain built.
C5_OwnUrl ==
  \A t \in Tasks :
    (calls[t].op = "query" /\ calls[t].own # "" /\ Len(calls[t].reqs) >= 1) =>
      calls[t].reqs[1].url = calls[t].own

\* C6: a finished call of a public operation (get, insert with a sequence,
\* update, delete, customquery, query with an accumulated URL) has issued
\* exactly one request and has received its response or failure.
C6_OneRequestPerCall ==
  \A t \in Tasks :
    (/\ Done(t)
     /\ \/ calls[t].op \in {"get", "update", "delete", "customquery"}
        \/ calls[t].op = "insert" /\ calls[t].arg.data.type \in SequenceTypes
        \/ calls[t].op = "query" /\ calls[t].out # Return(NoneValue)) =>
      /\ Len(calls[t].reqs) = 1
      /\ calls[t].resp.kind # "none"

\* C7: a connection failure of the transport ends the operation by raising
\* the library's ClientConnectorError with the transport's message, whatever
\* raise_error is: neither the transport's exception nor an Error value
\* comes out.
C7_ConnectorError ==
  \A t \in Tasks :
    (Done(t) /\ calls[t].resp.kind = "failure") =>
      /\ calls[t].out = Raise("ClientConnectorError", calls[t].resp.msg)
      /\ calls[t].out.exc # calls[t].resp.cls

C7_Witness ==
  \E t \in Tasks :
    /\ Done(t) /\ calls[t].op = "update" /\ ~raise_error[calls[t].client]
    /\ calls[t].resp = Failure("aiohttp.ClientConnectorError", "refused")
    /\ calls[t].out.exc = "ClientConnectorError"

\* C8: every client's stored headers are the ones it was constructed with
\* and its base URL is unchanged; insert and update send a copy extended
\* with Prefer: return=representation, the other operations send the stored
\* headers as they are.
C8_HeadersKept ==
  /\ \A c \in Clients :
       /\ heap[headers[c]] = given[c]
       /\ base_url[c] = api_url \o "/" \o table_name(c)
  /\ \A t \in Tasks : \A i \in 1..Len(calls[t].reqs) :
       LET req == calls[t].reqs[i]
           sent == given[calls[t].client]
       IN IF req.verb \in {"POST", "PATCH"}
          THEN /\ req.headers = {e \in sent : e[1] # "Prefer"}
                                  \cup {<<"Prefer", "return=representation">>}
          ELSE /\ req.headers = sent
               /\ <<"Prefer", "return=representation">> \notin req.headers

C8_Witness ==
  \E t \in Tasks :
    /\ \A c \in Clients : headers[c] = DefaultRef
    /\ Done(t) /\ calls[t].op = "update"
    /\ calls[t].reqs[1].headers = {<<"Prefer", "return=representation">>}
    /\ heap[DefaultRef] = {}

\* 'k=v' terms in mapping order joined by single '&'.
RECURSIVE JoinTerms(_)
JoinTerms(items) ==
  IF Len(items) = 1 THEN items[1][1] \o "=" \o Format(items[1][2])
  ELSE JoinTerms(SubSeq(items, 1, Len(items) - 1)) \o "&"
         \o items[Len(items)][1] \o "=" \o Format(items[Len(items)][2])

\* C9: for a non-empty mapping, delete sends DELETE to base_url + '?' + the
\* terms 'k=v' in mapping order joined by single '&', with no trailing '&';
\* delete({"id": 3}) ends in '?id=3'.
C9_DeleteEndpoint ==
  \A t \in Tasks :
    (calls[t].op = "delete" /\ Len(calls[t].arg.target) >= 1) =>
      LET url == calls[t].reqs[1].url
      IN /\ Len(calls[t].reqs) = 1
         /\ calls[t].reqs[1].verb = "DELETE"
         /\ url = base_url[calls[t].client] \o "?" \o JoinTerms(calls[t].arg.target)
         /\ SubSeq(url, Len(url), Len(url)) # "&"
         /\ calls[t].arg.target = <<(<<"id", IntVal(3)>>)>> =>
              SubSeq(url, Len(url) - 4, Len(url)) = "?id=3"

C9_Witness ==
  \E t \in Tasks :
    /\ calls[t].op = "delete" /\ calls[t].client = "c1"
    /\ calls[t].arg.target = <<(<<"id", IntVal(12)>>), (<<"title", StrVal("hi")>>)>>
    /\ calls[t].reqs[1].url = "http://h/posts?id=12&title=hi"

\* C10: a query() that starts when its client has no accumulated URL ends
\* at once returning None, with no request issued, nothing raised and the
\* client's state unchanged.
C10_QueryNoop ==
  [][\A t \in Tasks :
       (calls'[t].op = "query" /\ calls[t].op # "query"
          /\ as_url[calls'[t].client] = "") =>
         /\ calls'[t].pc = "done"
         /\ calls'[t].out = Return(NoneValue)
         /\ calls'[t].reqs = <<>>
         /\ calls'[t].resp = NoResp
         /\ UNCHANGED <<base_url, headers, raise_error, as_url, heap>>]_vars

C10_Witness ==
  \E t \in Tasks :
    /\ Done(t) /\ calls[t].op = "query" /\ as_url[calls[t].client] = ""
    /\ calls[t].out = Return(NoneValue) /\ calls[t].reqs = <<>>

====
